---- MODULE Spec2Model ----
(***************************************************************************)
(* State-machine model of strfpy_jax.py: the recursive cochlear filter,    *)
(* the wav2aud_j / cochleagram2aud pipeline, compression, and the cortical *)
(* filter bank aud2cor_j.  Arrays are sequences (index i of the source is  *)
(* position i+1 here); matrices are sequences of rows.                     *)
(***************************************************************************)
EXTENDS Integers, Sequences, FiniteSets, TLC

VARIABLES
    \* ---- cochlear_filter(b, a, x) ----
    fpc,      \* "call" | "loop" | "done"
    fb, fa,   \* coefficient arrays b, a (length Taps)
    fp,       \* true order of the filter the arrays were padded from
    fx,       \* input signal x
    far,      \* ar = jconvolve(x, b)
    fy,       \* y buffer of length len(x)+24
    fi,       \* loop index i
    fret      \* returned array

filtVars == <<fpc, fb, fa, fp, fx, far, fy, fi, fret>>

VARIABLES
    \* ---- wav2aud_j / cochleagram2aud: the arguments of the call ----
    fn,                  \* which function was called
    x,                   \* waveform (wav2aud_j) 
    cgram,               \* cochleagram argument v5 (cochleagram2aud)
    frmlen, time_constant, fac, octave_shift,
    filt_type, compression_method, fft, return_stage, downsample,
    \* ---- locals ----
    pc,                  \* position in the function body
    L_frm, N,            \* frame length in points, number of frames
    xpad,                \* x after jnp.pad
    v5,                  \* the working matrix
    hist,                \* the values v5 has been bound to, in order
    err,                 \* exception raised ("" if none)
    ret                  \* returned value

argVars == <<fn, x, cgram, frmlen, time_constant, fac, octave_shift,
             filt_type, compression_method, fft, return_stage, downsample>>
locVars == <<pc, L_frm, N, xpad, v5, hist, err, ret>>
wavVars == <<argVars, locVars>>

VARIABLES
    \* ---- aud2cor_j(y, paras, rv, sv) ----
    cpc,                 \* position in the function body
    y,                   \* the auditory spectrogram (abstract array)
    parasLen,            \* len(paras)
    rv, sv,              \* rate vector, scale vector
    Y,                   \* the transformed spectrogram
    rdx, sgnIdx, sdx,    \* loop indices (sgnIdx indexes the list [1, -1])
    HR,                  \* the temporal filter
    z1,                  \* the working array of the inner loops
    cr,                  \* the output tensor: cr[sdx][col] is one (N x M) slice
    cerr                 \* exception raised ("" if none)

corVars == <<cpc, y, parasLen, rv, sv, Y, rdx, sgnIdx, sdx, HR, z1, cr, cerr>>

VARIABLES
    \* ---- the caller's view: arrays as objects, names as references ----
    heap,                \* the array objects, by reference (position)
    heap0,               \* the caller's arrays as they were before the calls
    ncalls,              \* number of calls made so far
    mpc,                 \* position in the function being run
    mcall,               \* the running call: function, configuration, caller of compression
    mref,                \* the object the local name y / v5 / cr is bound to
    mxref,               \* the object the local name x is bound to
    mi,                  \* loop index
    merr,                \* exception raised by the last call ("" if none)
    lastRet              \* reference returned by the last call (0: none)

memVars == <<heap, heap0, ncalls, mpc, mcall, mref, mxref, mi, merr, lastRet>>

vars == <<filtVars, wavVars, corVars, memVars>>

notFilt == <<wavVars, corVars, memVars>>
notWav == <<filtVars, corVars, memVars>>
notCor == <<filtVars, wavVars, memVars>>
notMem == <<filtVars, wavVars, corVars>>

----------------------------------------------------------------------------
(* Bounds of the model *)
MaxOrder == 2      \* true filter orders 0..MaxOrder (all < 24)
MaxLen == 3        \* signal lengths 1..MaxLen

(* Program constants *)
Taps == 25         \* len(b) == len(a) == 25

Coef == {-1, 2}    \* values of the nonzero-position taps
Samp == {-1, 1}    \* values of the signal samples

----------------------------------------------------------------------------
(* Generic array helpers *)
At(s, i) == s[i + 1]                       \* s[i], 0-based
Zeros(n) == [k \in 1..n |-> 0]
Reverse(s) == [k \in 1..Len(s) |-> s[Len(s) + 1 - k]]
Slice(s, lo, hi) == [k \in 1..(hi - lo) |-> s[lo + k]]      \* s[lo:hi]
PadRight(s, n) == s \o Zeros(n)            \* jnp.pad(s, (0, n))

RECURSIVE SumTo(_, _)
SumTo(f, n) == IF n = 0 THEN 0 ELSE f[n] + SumTo(f, n - 1)
Sum(s) == SumTo(s, Len(s))                            \* jnp.sum
Dot(s, t) == Sum([k \in 1..Len(s) |-> s[k] * t[k]])   \* jnp.sum(s * t)

SeqsUpTo(S, lo, hi) == UNION {[1..n -> S] : n \in lo..hi}

----------------------------------------------------------------------------
(* cochlear_filter *)

\* jconvolve(x, b): full linear convolution, length len(x)+len(b)-1
jconvolve(xs, b) ==
    [n1 \in 1..(Len(xs) + Len(b) - 1) |->
        Sum([k \in 1..Len(xs) |->
                IF n1 - k >= 0 /\ n1 - k < Len(b) THEN xs[k] * b[n1 - k + 1] ELSE 0])]

\* mutant: the feedback taps are not reversed (a1 instead of a1[::-1])
FilterIterNoReverse(buf, i, ar, a) ==
    LET a1 == Slice(a, 1, Len(a))
        ma == IF Len(a) > 1 THEN Dot(Slice(buf, i, i + 24), a1) ELSE 0
    IN  [buf EXCEPT ![i + 24 + 1] = At(ar, i) - ma]

\* one iteration of the loop body, lines 116-121
FilterIter(buf, i, ar, a) ==
    LET a1 == Slice(a, 1, Len(a))
        ma == IF Len(a) > 1 THEN Dot(Slice(buf, i, i + 24), Reverse(a1)) ELSE 0
    IN  [buf EXCEPT ![i + 24 + 1] = At(ar, i) - ma]

RECURSIVE FilterLoop(_, _, _, _, _)
FilterLoop(buf, i, n, ar, a) ==
    IF i >= n THEN buf ELSE FilterLoop(FilterIter(buf, i, ar, a), i + 1, n, ar, a)

\* the whole function (asserts hold: both arrays have 25 entries)
cochlear_filter(b, a, xs) ==
    LET ar == jconvolve(xs, b)
        buf == FilterLoop(Zeros(Len(xs) + 24), 0, Len(xs), ar, a)
    IN  Slice(buf, 24, Len(buf))


----------------------------------------------------------------------------
(* Arithmetic used by the pipeline *)
Abs(v) == IF v < 0 THEN -v ELSE v
Sgn(v) == IF v > 0 THEN 1 ELSE IF v < 0 THEN -1 ELSE 0
Max(u, v) == IF u >= v THEN u ELSE v

RECURSIVE Pow(_, _)
Pow(v, e) == IF e = 0 THEN 1 ELSE v * Pow(v, e - 1)

CeilDiv(n, d) == (n + d - 1) \div d        \* ceil(n/d), n >= 0, d > 0

\* Python round() of the non-negative rational n/d: ties go to the even integer
RoundHalfEven(n, d) ==
    LET q == n \div d
        r == n % d
    IN  IF 2 * r < d THEN q
        ELSE IF 2 * r > d THEN q + 1
        ELSE IF q % 2 = 0 THEN q ELSE q + 1

\* nearest integer to the rational n/d (d # 0), ties away from zero
RoundDiv(n, d) ==
    LET an == Abs(n)
        ad == Abs(d)
    IN  Sgn(n) * Sgn(d) * ((2 * an + ad) \div (2 * ad))

\* round(frmlen * 2**(4+octave_shift))
FrameLen(flen, oshift) ==
    IF 4 + oshift >= 0 THEN flen * Pow(2, 4 + oshift)
    ELSE RoundHalfEven(flen, Pow(2, -(4 + oshift)))

Rows(m) == Len(m)
Cols(m) == IF Len(m) = 0 THEN 0 ELSE Len(m[1])

----------------------------------------------------------------------------
(* The coefficient table Bs, As = read_cochba_j().  The file cochba.txt is  *)
(* not part of the sources; the model uses a three-channel table of the     *)
(* shape read_cochba_j builds (rows right-padded to 25 taps).  The rows of  *)
(* As are [1, 0, ...], which keeps the frequency-response method on the     *)
(* integers: ifft(H * fft(x)) is then the circular convolution of x with b. *)
TableBs == << PadRight(<<1>>, Taps - 1),
              PadRight(<<1, -1>>, Taps - 2),
              PadRight(<<2, 1, -1>>, Taps - 3) >>
TableAs == << PadRight(<<1>>, Taps - 1),
              PadRight(<<1>>, Taps - 1),
              PadRight(<<1>>, Taps - 1) >>

\* cochlear_filter_fft for a = [1, 0, ...]: H(w) = sum_i b[i] e^{-jwi}, and
\* ifft(H * fft(x))[n] = sum_i b[i] * x[(n - i) mod len(x)]
cochlear_filter_fft(b, a, xs) ==
    [n1 \in 1..Len(xs) |->
        Sum([i1 \in 1..Taps |-> b[i1] * xs[((n1 - i1) % Len(xs)) + 1]])]

\* lines 168-178: one row per channel
FilterBank(Bt, At_, xs, useFft) ==
    [ch \in 1..Len(At_) |->
        IF useFft THEN cochlear_filter_fft(Bt[ch], At_[ch], xs)
        ELSE cochlear_filter(Bt[ch], At_[ch], xs)]

----------------------------------------------------------------------------
(* compression.  identity and power are exact on the integers.  logistic    *)
(* and root are real-valued; the model keeps their value rounded to the     *)
(* integer grid (logistic scaled by 2), and leaves the call when root has   *)
(* no finite real value.                                                    *)
Methods == {"identity", "logistic", "root", "power"}

\* power_norm: |x|**alpha * sign(x)
power_norm(row, alpha) == [j \in 1..Len(row) |-> Pow(Abs(row[j]), alpha) * Sgn(row[j])]

\* 2/(1+exp(y/f)) to the nearest integer, f > 0: 0 if y/f > ln 3, 2 if
\* y/f < -ln 3, else 1   (ln 3 = 1.0986...)
Logistic2(v, f) ==
    IF 10000 * v > 10986 * f THEN 0
    ELSE IF 10000 * v < -10986 * f THEN 2
    ELSE 1
logistic(row, f) == [j \in 1..Len(row) |-> Logistic2(row[j], f)]

\* root_norm: (x / (sum(x**p)/len(x))) ** (1/p)
RootSum(row, p) == Sum([j \in 1..Len(row) |-> Pow(row[j], p)])
RootFinite(row, p) ==
    /\ RootSum(row, p) # 0
    /\ p > 1 => \A j \in 1..Len(row) : row[j] * Len(row) * RootSum(row, p) >= 0
\* the p-th root of the rational n/d >= 0 to the nearest integer
RoundRoot(n, d, p) ==
    CHOOSE r \in 0..(Abs(n) + 1) :
        /\ Pow(2 * r - 1, p) * Abs(d) <= Pow(2, p) * Abs(n) \/ r = 0
        /\ Pow(2, p) * Abs(n) < Pow(2 * r + 1, p) * Abs(d)
root_norm(row, p) ==
    [j \in 1..Len(row) |->
        IF p = 1 THEN RoundDiv(row[j] * Len(row), RootSum(row, p))
        ELSE RoundRoot(row[j] * Len(row), RootSum(row, p), p)]

CompressRow(row, f, method) ==
    CASE method = "logistic" -> logistic(row, f)
      [] method = "root"     -> root_norm(row, f)
      [] method = "power"    -> power_norm(row, f)
      [] OTHER               -> row

\* the value compression returns when it returns (lines 268-289)
compression(mag, facs, method) ==
    [i \in 1..Rows(mag) |-> CompressRow(mag[i], facs[i], method)]

CompressionFinite(mag, facs, method) ==
    method = "root" => \A i \in 1..Rows(mag) : RootFinite(mag[i], facs[i])

----------------------------------------------------------------------------
(* Lateral difference, rectifier, leaky integrator, decimation *)

\* mutant: the difference is taken the other way round
LateralDifferenceSwapped(m) ==
    [i \in 1..(Rows(m) - 1) |-> [j \in 1..Cols(m) |-> m[i + 1][j] - m[i][j]]]

\* line 184: v5[:-1, :] - v5[1:, :]
LateralDifference(m) ==
    [i \in 1..(Rows(m) - 1) |-> [j \in 1..Cols(m) |-> m[i][j] - m[i + 1][j]]]

\* line 188: v5.at[:,:].max(0)
Rectify(m) == [i \in 1..Rows(m) |-> [j \in 1..Cols(m) |-> Max(m[i][j], 0)]]

\* alpha = exp(-1/(time_constant * 2**(4+octave_shift))), kept as the
\* rational AlphaNum/AlphaDen of eighths nearest to it
AlphaDen == 8
AlphaNum(tc, oshift) ==
    LET tnum == tc * (IF 4 + oshift >= 0 THEN Pow(2, 4 + oshift) ELSE 1)
        tden == IF 4 + oshift >= 0 THEN 1 ELSE Pow(2, -(4 + oshift))
    IN  \* exp(-tden/tnum) * 8, rounded
        CASE 4 * tnum <= tden     -> 0     \* tau <= 1/4 : exp(-4)   = 0.018
          [] 2 * tnum <= tden     -> 1     \* tau <= 1/2 : exp(-2)   = 0.135
          [] tnum <= tden         -> 3     \* tau <= 1   : exp(-1)   = 0.368
          [] tnum <= 2 * tden     -> 5     \* tau <= 2   : exp(-1/2) = 0.607
          [] tnum <= 4 * tden     -> 6     \* tau <= 4   : exp(-1/4) = 0.779
          [] OTHER                -> 7     \* larger     : exp(-1/8) = 0.882

\* leaky_integrator_fft: H = 1/(1 - alpha e^{-jw}) on the len(x) DFT bins is
\* the circular filter y[n] = sum_k alpha^k x[(n-k) mod L] / (1 - alpha^L).
\* With alpha = p/q the model keeps y[n] * (q^L - p^L), an integer:
\*   sum_{k=0..L-1} p^k q^(L-k) x[(n-k) mod L]
leaky_integrator_fft(row, p, q) ==
    LET L == Len(row)
    IN  [n1 \in 1..L |->
            Sum([k1 \in 1..L |->
                Pow(p, k1 - 1) * Pow(q, L - (k1 - 1)) * row[((n1 - k1) % L) + 1]])]

LeakyRows(m, p, q) == [i \in 1..Rows(m) |-> leaky_integrator_fft(m[i], p, q)]

\* mutant: frame j is read at j*L_frm instead of (j+1)*L_frm - 1
DecimateDefaultOffByOne(m, nfr, lfrm) ==
    [i \in 1..Rows(m) |-> [j \in 1..nfr |-> m[i][((j - 1) * lfrm) + 1]]]

\* lines 198-199: inds = arange(1, N+1)*L_frm - 1; v5[:, inds]
DecimateDefault(m, nfr, lfrm) ==
    [i \in 1..Rows(m) |-> [j \in 1..nfr |-> m[i][(j * lfrm - 1) + 1]]]

\* lines 201, 249: v5[:, (L_frm - 1)::L_frm], L_frm >= 1
DecimateStride(m, lfrm) ==
    LET len == Cols(m)
        cnt == IF len <= lfrm - 1 THEN 0 ELSE CeilDiv(len - (lfrm - 1), lfrm)
    IN  [i \in 1..Rows(m) |-> [j \in 1..cnt |-> m[i][((lfrm - 1) + (j - 1) * lfrm) + 1]]]

----------------------------------------------------------------------------
(* Each specification runs one part of the module; the others stay idle *)
NoValue == <<>>

WavIdle ==
    /\ fn = "" /\ x = <<>> /\ cgram = <<>>
    /\ frmlen = 0 /\ time_constant = 0 /\ fac = <<>> /\ octave_shift = 0
    /\ filt_type = "" /\ compression_method = "" /\ fft = FALSE
    /\ return_stage = 0 /\ downsample = ""
    /\ pc = "idle" /\ L_frm = 0 /\ N = 0 /\ xpad = <<>> /\ v5 = <<>>
    /\ hist = <<>> /\ err = "" /\ ret = NoValue

CorIdle ==
    /\ cpc = "idle" /\ y = <<>> /\ parasLen = 0 /\ rv = <<>> /\ sv = <<>>
    /\ Y = <<>> /\ rdx = 0 /\ sgnIdx = 0 /\ sdx = 0 /\ HR = <<>> /\ z1 = <<>>
    /\ cr = <<>> /\ cerr = ""

NoCall == [fn |-> "", method |-> "", tc |-> 0, flen |-> 0, oshift |-> 0,
           useFft |-> FALSE, mode |-> "", cont |-> ""]

MemIdle ==
    /\ heap = <<>> /\ heap0 = <<>> /\ ncalls = 0 /\ mpc = "idle" /\ mcall = NoCall
    /\ mref = 0 /\ mxref = 0 /\ mi = 0 /\ merr = "" /\ lastRet = 0

FiltIdle ==
    /\ fpc = "idle" /\ fb = <<>> /\ fa = <<>> /\ fp = 0 /\ fx = <<>>
    /\ far = <<>> /\ fy = <<>> /\ fi = 0 /\ fret = <<>>

----------------------------------------------------------------------------
(* cochlear_filter as a process *)

\* coefficient arrays as read_cochba_j builds them: p+1 taps, right-padded
PaddedCoefs(p) == {PadRight(c, Taps - (p + 1)) : c \in [1..(p + 1) -> Coef]}

FiltInit ==
    /\ fpc = "call"
    /\ fp \in 0..MaxOrder
    /\ fb \in PaddedCoefs(fp)
    /\ fa \in PaddedCoefs(fp)
    /\ fx \in SeqsUpTo(Samp, 1, MaxLen)
    /\ far = <<>> /\ fy = <<>> /\ fi = 0 /\ fret = <<>>
    /\ WavIdle /\ CorIdle /\ MemIdle

\* lines 108-113: asserts, the AR part and the zero buffer
FilterEnter ==
    /\ fpc = "call"
    /\ Len(fb) = Taps /\ Len(fa) = Taps
    /\ far' = jconvolve(fx, fb)
    /\ fy' = Zeros(Len(fx) + 24)
    /\ fi' = 0
    /\ fpc' = "loop"
    /\ UNCHANGED <<fb, fa, fp, fx, fret>>
    /\ UNCHANGED notFilt

\* lines 115-121: one pass of the for loop
FilterStep ==
    /\ fpc = "loop"
    /\ fi < Len(fx)
    /\ fy' = FilterIter(fy, fi, far, fa)
    /\ fi' = fi + 1
    /\ UNCHANGED <<fpc, fb, fa, fp, fx, far, fret>>
    /\ UNCHANGED notFilt

\* line 122
FilterReturn ==
    /\ fpc = "loop"
    /\ fi >= Len(fx)
    /\ fret' = Slice(fy, 24, Len(fy))
    /\ fpc' = "done"
    /\ UNCHANGED <<fb, fa, fp, fx, far, fy, fi>>
    /\ UNCHANGED notFilt

FiltNext == FilterEnter \/ FilterStep \/ FilterReturn

SpecFilt == FiltInit /\ [][FiltNext]_vars

----------------------------------------------------------------------------
(* C8 *)

\* the difference equation with feedback/feedforward taps 0..taps,
\* x and y zero at negative indices
RECURSIVE DirectY(_, _, _, _, _)
DirectY(b, a, xs, n, taps) ==
    LET ff == [k \in 1..(taps + 1) |->
                 IF n - (k - 1) >= 0 THEN At(b, k - 1) * At(xs, n - (k - 1)) ELSE 0]
        fbk == [k \in 1..taps |->
                 IF n - k >= 0 THEN At(a, k) * DirectY(b, a, xs, n - k, taps) ELSE 0]
    IN  Sum(ff) - Sum(fbk)

DirectForm(b, a, xs, taps) == [n1 \in 1..Len(xs) |-> DirectY(b, a, xs, n1 - 1, taps)]

\* C8: the recursive method returns len(x) samples obeying
\* y[n] = sum_{k=0..24} b[k]x[n-k] - sum_{k=1..24} a[k]y[n-k]; for arrays
\* padded from order p < 24 this is the order-p recursion on taps 0..p.
C8_DifferenceEquation ==
    fpc = "done" =>
        /\ Len(fret) = Len(fx)
        /\ fret = DirectForm(fb, fa, fx, Taps - 1)
        /\ fret = DirectForm(fb, fa, fx, fp)
        /\ fret = cochlear_filter(fb, fa, fx)

\* a padded order-1+ filter with live feedback has produced its output
C8_Witness ==
    /\ fpc = "done"
    /\ fp >= 1 /\ fp < Taps - 1
    /\ Len(fx) >= 2
    /\ At(fa, 1) # 0
    /\ fret # DirectForm(fb, Zeros(Taps), fx, Taps - 1)

----------------------------------------------------------------------------
(* wav2aud_j and cochleagram2aud as processes *)

MaxWav == 3        \* waveform lengths 1..MaxWav
MaxFrm == 2        \* frmlen in 1..MaxFrm
MaxCg == 2         \* cochleagram columns 1..MaxCg

Octaves == {-5, -4}              \* 2**(4+octave_shift) in {1/2, 1}
TimeConstants == {0, 4}
FacVals == {1, 2}
FiltTypes == {"p", "k"}
MethodTags == Methods \cup {"tanh"}
Downsamples == {"default", "stride"}
Stages == 1..5
CgramRows == 2

\* the padded waveforms of the model, and the subband matrices of all of
\* them, evaluated once
PaddedInputs ==
    {PadRight(w, k) : w \in SeqsUpTo(Samp, 1, MaxWav), k \in 0..(MaxFrm - 1)}
SubbandTable ==
    [u \in BOOLEAN |-> [w \in PaddedInputs |-> FilterBank(TableBs, TableAs, w, u)]]

\* lines 168-178 for the arrays at hand
Subbands(Bt, At_, xs, useFft) ==
    IF Bt = TableBs /\ At_ = TableAs /\ xs \in PaddedInputs
    THEN SubbandTable[useFft][xs]
    ELSE FilterBank(Bt, At_, xs, useFft)

WavInit ==
    /\ \/ /\ fn = "wav2aud_j"
          /\ x \in SeqsUpTo(Samp, 1, MaxWav)
          /\ cgram = <<>>
          /\ fac \in {[i \in 1..Len(TableAs) |-> f] : f \in FacVals}
          /\ filt_type \in FiltTypes
          /\ fft \in BOOLEAN
          /\ return_stage \in Stages
          /\ downsample \in Downsamples
          /\ pc = "w_setup"
       \/ /\ fn = "cochleagram2aud"
          /\ x = <<>>
          /\ cgram \in UNION {[1..CgramRows -> [1..c -> Samp]] : c \in 1..MaxCg}
          /\ fac \in {[i \in 1..CgramRows |-> f] : f \in FacVals}
          /\ filt_type = "p" /\ fft = TRUE /\ return_stage = 5 /\ downsample = "stride"
          /\ pc = "c_compress"
    /\ frmlen \in 1..MaxFrm
    /\ time_constant \in TimeConstants
    /\ octave_shift \in Octaves
    /\ compression_method \in MethodTags
    /\ L_frm = 0 /\ N = 0 /\ xpad = <<>> /\ v5 = <<>> /\ hist = <<>>
    /\ err = "" /\ ret = NoValue
    /\ FiltIdle /\ CorIdle /\ MemIdle

Raise(e) ==
    /\ pc' = "raised"
    /\ err' = e

\* mutant: the stage-1 return test is missing, the selector is only read later
BindLate(val, stage, next) ==
    /\ v5' = val
    /\ hist' = Append(hist, val)
    /\ IF return_stage = stage /\ stage > 1
       THEN pc' = "returned" /\ ret' = val
       ELSE pc' = next /\ ret' = ret
    /\ err' = err

\* bind v5 to a new value; return it if this is the selected stage
Bind(val, stage, next) ==
    /\ v5' = val
    /\ hist' = Append(hist, val)
    /\ IF return_stage = stage
       THEN pc' = "returned" /\ ret' = val
       ELSE pc' = next /\ ret' = ret
    /\ err' = err

\* lines 156-166
W_Setup ==
    /\ pc = "w_setup"
    /\ Len(TableAs) = Len(TableBs)
    /\ IF filt_type # "p"
       THEN Raise("NotImplementedError") /\ UNCHANGED <<L_frm, N, xpad>>
       ELSE LET lf == FrameLen(frmlen, octave_shift)
            IN  /\ L_frm' = lf
                /\ IF lf = 0
                   THEN Raise("ZeroDivisionError") /\ UNCHANGED <<N, xpad>>
                   ELSE LET nfr == CeilDiv(Len(x), lf)
                        IN  /\ N' = nfr
                            /\ xpad' = PadRight(x, nfr * lf - Len(x))
                            /\ pc' = "w_filter"
                            /\ err' = err
    /\ UNCHANGED <<v5, hist, ret, argVars, notWav>>

\* lines 168-179
W_Filter ==
    /\ pc = "w_filter"
    /\ Bind(Subbands(TableBs, TableAs, xpad, fft), 1, "w_compress")
    /\ UNCHANGED <<L_frm, N, xpad, argVars, notWav>>

\* lines 180-181 (compression: lines 263-289)
W_Compress ==
    /\ pc = "w_compress"
    /\ IF compression_method \notin Methods
       THEN Raise("KeyError") /\ UNCHANGED <<v5, hist, ret>>
       ELSE IF ~CompressionFinite(v5, fac, compression_method)
       THEN pc' = "nonfinite" /\ UNCHANGED <<v5, hist, ret, err>>
       ELSE Bind(compression(v5, fac, compression_method), 2, "w_diff")
    /\ UNCHANGED <<L_frm, N, xpad, argVars, notWav>>

\* lines 183-185
W_Difference ==
    /\ pc = "w_diff"
    /\ Bind(LateralDifference(v5), 3, "w_rect")
    /\ UNCHANGED <<L_frm, N, xpad, argVars, notWav>>

\* lines 187-189
W_Rectify ==
    /\ pc = "w_rect"
    /\ Bind(Rectify(v5), 4, "w_integ")
    /\ UNCHANGED <<L_frm, N, xpad, argVars, notWav>>

\* lines 191-201: smoothing and decimation of wav2aud_j
IntegrateDecimate(m, tc, oshift, nfr, lfrm, mode) ==
    LET sm == LeakyRows(m, AlphaNum(tc, oshift), AlphaDen)
    IN  IF mode = "default" THEN DecimateDefault(sm, nfr, lfrm)
        ELSE DecimateStride(sm, lfrm)

\* mutant: the zero-time-constant branch always passes
LastStageRaisesNever(tc, lfrm) == FALSE

\* mutant: only frame lengths above 1 are rejected
LastStageRaisesAboveOne(tc, lfrm) == tc = 0 /\ lfrm > 1

\* lines 202-205: time_constant == 0 and L_frm != 1
LastStageRaises(tc, lfrm) == tc = 0 /\ lfrm # 1

\* lines 191-206
W_Integrate ==
    /\ pc = "w_integ"
    /\ IF time_constant # 0
       THEN Bind(IntegrateDecimate(v5, time_constant, octave_shift, N, L_frm, downsample),
                 5, "returned")
       ELSE IF ~LastStageRaises(time_constant, L_frm)
       THEN /\ pc' = "returned"
            /\ ret' = IF return_stage = 5 THEN v5 ELSE NoValue
            /\ UNCHANGED <<v5, hist, err>>
       ELSE Raise("NotImplementedError") /\ UNCHANGED <<v5, hist, ret>>
    /\ UNCHANGED <<L_frm, N, xpad, argVars, notWav>>

\* lines 226-233
C_Compress ==
    /\ pc = "c_compress"
    /\ L_frm' = FrameLen(frmlen, octave_shift)
    /\ IF compression_method \notin Methods
       THEN Raise("KeyError") /\ UNCHANGED <<v5, hist, ret>>
       ELSE IF ~CompressionFinite(cgram, fac, compression_method)
       THEN pc' = "nonfinite" /\ UNCHANGED <<v5, hist, ret, err>>
       ELSE /\ v5' = compression(cgram, fac, compression_method)
            /\ hist' = Append(hist, v5')
            /\ pc' = "c_rect"
            /\ UNCHANGED <<ret, err>>
    /\ UNCHANGED <<N, xpad, argVars, notWav>>

\* line 239
C_Rectify ==
    /\ pc = "c_rect"
    /\ v5' = Rectify(v5)
    /\ hist' = Append(hist, v5')
    /\ pc' = "c_integ"
    /\ UNCHANGED <<ret, err, L_frm, N, xpad, argVars, notWav>>

\* lines 241-254
C_Integrate ==
    /\ pc = "c_integ"
    /\ IF time_constant # 0
       THEN IF L_frm = 0
            THEN Raise("ValueError") /\ UNCHANGED <<v5, hist, ret>>   \* slice step 0
            ELSE /\ v5' = DecimateStride(
                            LeakyRows(v5, AlphaNum(time_constant, octave_shift), AlphaDen),
                            L_frm)
                 /\ hist' = Append(hist, v5')
                 /\ ret' = v5'
                 /\ pc' = "returned"
                 /\ err' = err
       ELSE IF ~LastStageRaises(time_constant, L_frm)
       THEN /\ pc' = "returned"
            /\ ret' = v5
            /\ UNCHANGED <<v5, hist, err>>
       ELSE Raise("NotImplementedError") /\ UNCHANGED <<v5, hist, ret>>
    /\ UNCHANGED <<L_frm, N, xpad, argVars, notWav>>

WavNext ==
    \/ W_Setup \/ W_Filter \/ W_Compress \/ W_Difference \/ W_Rectify \/ W_Integrate
    \/ C_Compress \/ C_Rectify \/ C_Integrate

SpecWav == WavInit /\ [][WavNext]_vars


----------------------------------------------------------------------------
(* Claims about wav2aud_j and cochleagram2aud *)

IsWav == fn = "wav2aud_j"
IsC2A == fn = "cochleagram2aud"

\* the configurations the claim calls unsupported
Unsupported ==
    \/ filt_type # "p"
    \/ compression_method \notin Methods
    \/ time_constant = 0 /\ FrameLen(frmlen, octave_shift) # 1

\* C1 as stated: an unsupported configuration never returns a matrix,
\* whatever return_stage is.
C1_UnsupportedAlwaysRaises ==
    (IsWav /\ Unsupported) => pc # "returned"

\* the configurations in which wav2aud_j reaches a raise statement (or the
\* division by a zero frame length) before the selected stage returns
MustRaise ==
    \/ filt_type # "p"
    \/ FrameLen(frmlen, octave_shift) = 0
    \/ compression_method \notin Methods /\ return_stage >= 2
    \/ time_constant = 0 /\ FrameLen(frmlen, octave_shift) # 1 /\ return_stage = 5

\* C1 amended: wav2aud_j raises exactly in the MustRaise configurations: an
\* unknown compression tag is only detected from return_stage 2 on, the zero
\* time constant with L_frm # 1 only at return_stage 5; earlier stages return.
C1_RaisesWhenStageReached ==
    IsWav =>
        /\ pc = "returned" => ~MustRaise
        /\ pc = "raised" => MustRaise /\ ret = NoValue
        /\ (pc = "raised" /\ err = "KeyError") =>
               compression_method \notin Methods /\ return_stage >= 2
        /\ (pc \in {"w_diff", "w_rect", "w_integ"}) => compression_method \in Methods

C1_Witness ==
    /\ IsWav /\ pc = "raised" /\ err = "NotImplementedError"
    /\ filt_type = "p" /\ compression_method \in Methods
    /\ time_constant = 0 /\ L_frm = 2 /\ return_stage = 5
    /\ Len(hist) = 4

\* the last stage has run to its end with time_constant = 0
LastStageDone ==
    /\ pc \in {"returned", "raised"}
    /\ time_constant = 0
    /\ \/ IsWav /\ return_stage = 5 /\ Len(hist) = 4
       \/ IsC2A /\ Len(hist) = 2

\* C2: with time_constant = 0 the last stage returns the rectified matrix
\* unchanged when L_frm = 1 and raises for every other L_frm, in wav2aud_j
\* and in cochleagram2aud.
C2_ZeroTimeConstant ==
    LastStageDone =>
        IF L_frm = 1
        THEN /\ pc = "returned"
             /\ ret = hist[Len(hist)]
             /\ ret = Rectify(hist[Len(hist) - 1])
        ELSE /\ pc = "raised" /\ err = "NotImplementedError" /\ ret = NoValue

C2_Witness ==
    /\ LastStageDone /\ IsWav /\ L_frm = 1 /\ pc = "returned"
    /\ Len(x) = 3
    /\ \E i \in 1..Rows(ret) : \E j \in 1..Cols(ret) : ret[i][j] > 0
    /\ \E i \in 1..Rows(ret) : \E j \in 1..Cols(ret) : ret[i][j] = 0

\* the value of stage k, computed from the arguments (k = 1) or from the
\* value of stage k-1
StageValue(k, prev) ==
    LET lf == FrameLen(frmlen, octave_shift)
        nfr == CeilDiv(Len(x), lf)
    IN  CASE k = 1 -> Subbands(TableBs, TableAs, PadRight(x, nfr * lf - Len(x)), fft)
          [] k = 2 -> compression(prev, fac, compression_method)
          [] k = 3 -> LateralDifference(prev)
          [] k = 4 -> Rectify(prev)
          [] OTHER -> IntegrateDecimate(prev, time_constant, octave_shift,
                                        nfr, lf, downsample)

\* C4: for return_stage k the returned value is the result of the first k
\* stages applied in order, nothing more and nothing less.
C4_StagePrefix ==
    (IsWav /\ pc = "returned") =>
        /\ return_stage \in 1..5
        /\ Len(hist) = IF return_stage = 5 /\ time_constant = 0 THEN 4 ELSE return_stage
        /\ ret = hist[Len(hist)]
        /\ \A k \in 1..Len(hist) :
              hist[k] = StageValue(k, IF k = 1 THEN NoValue ELSE hist[k - 1])

C4_Witness ==
    /\ IsWav /\ pc = "returned" /\ return_stage = 3
    /\ compression_method = "power"
    /\ ret # hist[2] /\ ret # Rectify(ret)

\* r holds n columns per row, column j being sample (j+1)*lf - 1 of sm
FramesOf(r, sm, n, lf) ==
    /\ Rows(r) = Rows(sm)
    /\ \A i \in 1..Rows(r) :
          /\ Len(r[i]) = n
          /\ \A j \in 0..(n - 1) : At(r[i], j) = At(sm[i], (j + 1) * lf - 1)

\* C5: the waveform is zero-padded to N*L_frm samples, N = ceil(n/L_frm),
\* and with time_constant # 0 the final spectrogram has N columns, column j
\* being sample (j+1)*L_frm - 1 of the smoothed signal, in both modes.
C5_FramesAndDecimation ==
    IsWav =>
        /\ (pc \notin {"w_setup", "raised"} \/ (pc = "raised" /\ Len(hist) > 0)) =>
              /\ L_frm >= 1
              /\ (N - 1) * L_frm < Len(x) /\ Len(x) <= N * L_frm
              /\ Len(xpad) = N * L_frm
              /\ Len(xpad) - Len(x) \in 0..(L_frm - 1)
              /\ \A k \in 1..Len(xpad) : xpad[k] = IF k <= Len(x) THEN x[k] ELSE 0
        /\ (pc = "returned" /\ return_stage = 5 /\ time_constant # 0) =>
              FramesOf(ret, LeakyRows(hist[4], AlphaNum(time_constant, octave_shift),
                                      AlphaDen), N, L_frm)

C5_Witness ==
    /\ IsWav /\ pc = "returned" /\ return_stage = 5 /\ time_constant # 0
    /\ downsample = "stride"
    /\ L_frm = 2 /\ Len(x) = 3 /\ N = 2
    /\ \E i \in 1..Rows(ret) : ret[i][1] # ret[i][2]

----------------------------------------------------------------------------
(* aud2cor_j.  The filters and the transforms are real- and complex-valued;  *)
(* the model keeps, for every array, its shape, whether all its entries are  *)
(* exactly zero, whether it holds NaN, and the filters that were multiplied  *)
(* into it, in order.                                                        *)

MaxN == 3          \* spectrogram rows 1..MaxN
MaxM == 3          \* spectrogram columns 1..MaxM
MaxK == 2          \* len(rv), len(sv) in 1..MaxK

\* 2**ceil(log2(n))
RECURSIVE NextPow2From(_, _)
NextPow2From(n, q) == IF q >= n THEN q ELSE NextPow2From(n, 2 * q)
NextPow2(n) == NextPow2From(n, 1)

Arr(r, c, z, nn, rt, sc) ==
    [rows |-> r, cols |-> c, zero |-> z, nan |-> nn, rate |-> rt, scale |-> sc]

\* lines 345-346: fft along the columns (M2 points, first M1 kept), then
\* along the rows (N2 points); a transform of zeros is zeros
Transform2(a, n2, m1) == Arr(n2, m1, a.zero, a.nan, a.rate, a.scale)

\* gen_cort_j(fc, L, STF, PASS), lines 393-404.  t[0] = 0, so h[0] = 0 and,
\* for fc # 0, h[i] # 0 when i >= 1: h - mean(h) is all zero exactly when
\* L = 1 (or fc = 0); then max(H) = 0 and H /= max(H) is 0/0.
gen_cort_j(fc, L, STF) ==
    [fc |-> fc, len |-> L, dir |-> 0, nan |-> ~(fc # 0 /\ L >= 2)]

\* gen_corf_j(fc, L, SRF, KIND), lines 419-435.  KIND is a list, so the
\* else branch runs: R1[0] = 0 gives H[0] = 0 and H[i] > 0 for i >= 1;
\* sum(H) = 0 exactly when L = 1, and H / sum(H) * sumH is then 0/0.
gen_corf_j(fc, L, SRF) ==
    [fc |-> fc, len |-> L, srf |-> SRF, nan |-> ~(fc # 0 /\ L >= 2)]

\* line 354 / lines 356-357: the filter of direction +1 is padded with N1
\* zeros; the filter of direction -1 is built from it by mirroring
Directed(h, sgn, n1) ==
    IF sgn = 1 THEN [h EXCEPT !.len = h.len + n1, !.dir = 1]
    ELSE [h EXCEPT !.dir = -1]

\* lines 360-361: multiply along the rows, inverse transform, keep N rows
TemporalConv(h, a, n) ==
    Arr(n, a.cols, a.zero /\ ~h.nan, a.nan \/ h.nan,
        Append(a.rate, <<h.fc, h.dir>>), a.scale)

\* line 366: z1 * HS
ScaleMul(a, h) ==
    Arr(a.rows, a.cols, a.zero /\ ~h.nan, a.nan \/ h.nan, a.rate, Append(a.scale, h.fc))

\* lines 368-371: inverse transform on M2 points, keep M columns
InverseCols(a, m) == Arr(a.rows, m, a.zero, a.nan, a.rate, a.scale)

\* mutant: the direction does not enter the column index
CrColumnNoDirection(r, sgn, k1) == r

\* line 371: rdx + (sgn == 1) * K1
CrColumn(r, sgn, k1) == r + (IF sgn = 1 THEN 1 ELSE 0) * k1

Sgns == <<1, -1>>        \* line 352

CorInit ==
    /\ cpc = "a_setup"
    /\ \E n \in 1..MaxN, m \in 1..MaxM, z \in BOOLEAN :
          y = Arr(n, m, z, FALSE, <<>>, <<>>)
    /\ parasLen \in {4, 5}
    /\ \E k1 \in 1..MaxK : rv = [i \in 1..k1 |-> Pow(2, i)]
    /\ \E k2 \in 1..MaxK : sv = [i \in 1..k2 |-> Pow(2, i - 1)]
    /\ Y = <<>> /\ rdx = 0 /\ sgnIdx = 0 /\ sdx = 0 /\ HR = <<>> /\ z1 = <<>>
    /\ cr = <<>> /\ cerr = ""
    /\ FiltIdle /\ WavIdle /\ MemIdle

K1 == Len(rv)
K2 == Len(sv)
N1 == NextPow2(y.rows)
M1 == NextPow2(y.cols)
STF == 200                                \* 1000/paras[0], paras[0] = 5
SRF == IF y.cols = 95 THEN 20 ELSE 24     \* lines 338-339

\* a slice of cr: the array stored there and how often it was stored
ZeroSlice == [val |-> Arr(y.rows, y.cols, TRUE, FALSE, <<>>, <<>>),
              writes |-> 0, by |-> <<>>]

\* lines 328-348
A_Setup ==
    /\ cpc = "a_setup"
    /\ IF parasLen < 5
       THEN /\ Y' = Transform2(y, 2 * N1, M1)
            /\ cr' = [s \in 1..K2 |-> [c \in 1..(K1 * 2) |-> ZeroSlice]]
            /\ rdx' = 0
            /\ cpc' = "rate"
            /\ cerr' = cerr
       ELSE /\ cpc' = "raised"
            /\ cerr' = "NotImplementedError"
            /\ UNCHANGED <<Y, cr, rdx>>
    /\ UNCHANGED <<y, parasLen, rv, sv, sgnIdx, sdx, HR, z1, notCor>>

\* lines 349-350, and line 374 when the loop is over
A_Rate ==
    /\ cpc = "rate"
    /\ IF rdx < K1
       THEN /\ HR' = gen_cort_j(At(rv, rdx), N1, STF)
            /\ sgnIdx' = 0
            /\ cpc' = "dir"
       ELSE /\ cpc' = "returned"
            /\ UNCHANGED <<HR, sgnIdx>>
    /\ UNCHANGED <<y, parasLen, rv, sv, Y, rdx, sdx, z1, cr, cerr, notCor>>

\* lines 352-361
A_Direction ==
    /\ cpc = "dir"
    /\ IF sgnIdx < Len(Sgns)
       THEN /\ HR' = Directed(HR, At(Sgns, sgnIdx), N1)
            /\ z1' = TemporalConv(HR', Y, y.rows)
            /\ sdx' = 0
            /\ cpc' = "scale"
            /\ rdx' = rdx
       ELSE /\ rdx' = rdx + 1
            /\ cpc' = "rate"
            /\ UNCHANGED <<HR, z1, sdx>>
    /\ UNCHANGED <<y, parasLen, rv, sv, Y, sgnIdx, cr, cerr, notCor>>

\* lines 364-373
A_Scale ==
    /\ cpc = "scale"
    /\ IF sdx < K2
       THEN LET HS == gen_corf_j(At(sv, sdx), M1, SRF)
                col == CrColumn(rdx, At(Sgns, sgnIdx), K1)
                old == cr[sdx + 1][col + 1]
            IN  /\ z1' = ScaleMul(z1, HS)
                /\ cr' = [cr EXCEPT ![sdx + 1][col + 1] =
                            [val |-> InverseCols(z1', y.cols),
                             writes |-> old.writes + 1,
                             by |-> <<sdx, rdx, At(Sgns, sgnIdx)>>]]
                /\ sdx' = sdx + 1
                /\ UNCHANGED <<sgnIdx, cpc>>
       ELSE /\ sgnIdx' = sgnIdx + 1
            /\ cpc' = "dir"
            /\ UNCHANGED <<z1, cr, sdx>>
    /\ UNCHANGED <<y, parasLen, rv, sv, Y, rdx, HR, cerr, notCor>>

CorNext == A_Setup \/ A_Rate \/ A_Direction \/ A_Scale

SpecCor == CorInit /\ [][CorNext]_vars

----------------------------------------------------------------------------
(* Claims about aud2cor_j *)

Slots == {<<s, c>> \in (0..(K2 - 1)) \X (0..(2 * K1 - 1)) : TRUE}
SlotOf(s, c) == cr[s + 1][c + 1]

\* C3: the slice stored for (sdx, rdx, direction) went through exactly one
\* temporal filter, that of rv[rdx] in that direction, and exactly one scale
\* filter, that of sv[sdx].
C3_OneFilterPair ==
    cpc \in {"rate", "dir", "scale", "returned"} =>
        \A sl \in Slots :
            LET e == SlotOf(sl[1], sl[2])
            IN  e.writes > 0 =>
                    /\ e.val.rate = << <<At(rv, e.by[2]), e.by[3]>> >>
                    /\ e.val.scale = << At(sv, sl[1]) >>

\* C9: for an all-zero spectrogram the result has shape (K2, 2*K1, N, M)
\* and every element is zero.
C9_ZeroInZeroOut ==
    (cpc = "returned" /\ y.zero /\ parasLen < 5) =>
        /\ Len(cr) = K2
        /\ \A s \in 1..K2 :
              /\ Len(cr[s]) = 2 * K1
              /\ \A c \in 1..(2 * K1) :
                    /\ cr[s][c].val.rows = y.rows /\ cr[s][c].val.cols = y.cols
                    /\ cr[s][c].val.zero /\ ~cr[s][c].val.nan

\* C10: every (sdx, rdx, sgn) writes one slice, at [sdx, rdx + K1] for
\* sgn = +1 and [sdx, rdx] for sgn = -1; no slice is written twice and on
\* return each of the K2 * 2*K1 slices has been written once.
C10_OneWritePerSlice ==
    cpc \in {"rate", "dir", "scale", "returned"} =>
        /\ Len(cr) = K2 /\ \A s \in 1..K2 : Len(cr[s]) = 2 * K1
        /\ \A sl \in Slots :
              LET e == SlotOf(sl[1], sl[2])
              IN  /\ e.writes <= 1
                  /\ e.writes = 1 =>
                        /\ e.by[1] = sl[1]
                        /\ e.by[3] \in {1, -1}
                        /\ sl[2] = IF e.by[3] = 1 THEN e.by[2] + K1 ELSE e.by[2]
                  /\ cpc = "returned" => e.writes = 1

C10_Witness ==
    /\ cpc = "returned" /\ K1 = 2 /\ K2 = 2
    /\ SlotOf(1, 3).writes = 1 /\ SlotOf(1, 3).by = <<1, 1, 1>>
    /\ SlotOf(1, 1).writes = 1 /\ SlotOf(1, 1).by = <<1, 1, -1>>


----------------------------------------------------------------------------
(* Arguments and results as objects.  A name holds a reference; jnp arrays  *)
(* are immutable, and x.at[idx].set(v) / .max(v) build a new array.         *)

MaxCalls == 2      \* calls made by the caller
MemCols == 1       \* columns of the caller's cochleagram (one row per channel)

XRef == 1          \* the caller's waveform
CgRef == 2         \* the caller's cochleagram
FacRef == 3        \* the caller's compression parameters
BsRef == 4         \* module-level Bs
AsRef == 5         \* module-level As
RvRef == 6         \* the caller's rate vector
SvRef == 7         \* the caller's scale vector
CallerRefs == {XRef, CgRef, FacRef, BsRef, AsRef, RvRef, SvRef}

Out(h, r) == [heap |-> h, ref |-> r]

\* a new array object
Alloc(h, val) == Out(Append(h, val), Len(h) + 1)

\* mutant: the update writes into the array it is applied to
AtUpdateInPlace(h, r, val) == Out([h EXCEPT ![r] = val], r)

\* x.at[...].set(...) / x.at[...].max(...): a new array, x is left as it was
AtUpdate(h, r, val) == Alloc(h, val)

MemInit ==
    /\ heap \in {<<<<1, -1>>, cg, [i \in 1..Len(TableAs) |-> 2],
                   TableBs, TableAs, <<2, 4>>, <<1, 2>> >> :
                    cg \in [1..Len(TableAs) -> [1..MemCols -> Samp]]}
    /\ heap0 = heap
    /\ ncalls = 0 /\ mpc = "caller" /\ mcall = NoCall
    /\ mref = 0 /\ mxref = 0 /\ mi = 0 /\ merr = "" /\ lastRet = 0
    /\ FiltIdle /\ WavIdle /\ CorIdle

\* the caller is between calls
AtCaller == mpc \in {"caller", "returned", "raised", "nonfinite"}

\* the caller makes a call; the locals and the result of the previous call
\* are gone, the caller's own arrays stay
Enter(c, entry, r) ==
    /\ AtCaller
    /\ ncalls < MaxCalls
    /\ ncalls' = ncalls + 1
    /\ heap' = SubSeq(heap, 1, Len(heap0))
    /\ mcall' = c
    /\ mpc' = entry
    /\ mref' = r
    /\ mxref' = 0 /\ mi' = 0 /\ merr' = "" /\ lastRet' = 0
    /\ UNCHANGED <<heap0, notMem>>

Return(r) ==
    /\ mpc' = "returned"
    /\ lastRet' = r
    /\ merr' = ""

RaiseM(e) ==
    /\ mpc' = "raised"
    /\ lastRet' = 0
    /\ merr' = e

\* the caller calls compression(cochleagram, fac, method)
M_Call_compression ==
    \E method \in MethodTags :
        Enter([NoCall EXCEPT !.fn = "compression", !.method = method, !.cont = "caller"],
              "comp_bind", CgRef)

\* cochleagram2aud(cochleagram, frmlen, tc, fac, -4, method): L_frm = frmlen
M_Call_cochleagram2aud ==
    \E method \in MethodTags, tc \in TimeConstants, flen \in 1..MaxFrm :
        Enter([NoCall EXCEPT !.fn = "cochleagram2aud", !.method = method, !.tc = tc,
                             !.flen = flen, !.oshift = -4, !.cont = "c2a"],
              "comp_bind", CgRef)

\* wav2aud_j(x, frmlen, tc, fac, -5, As, Bs, 'p', method, fft, 5, mode):
\* L_frm = round(frmlen / 2)
M_Call_wav2aud_j ==
    \E method \in MethodTags, tc \in TimeConstants, flen \in 1..MaxFrm,
       useFft \in BOOLEAN, mode \in Downsamples :
        Enter([NoCall EXCEPT !.fn = "wav2aud_j", !.method = method, !.tc = tc,
                             !.flen = flen, !.oshift = -5, !.useFft = useFft,
                             !.mode = mode, !.cont = "wav"],
              "w_pad", 0)

\* inverse_cochlear_filter(Bs, As, cochleagram)
M_Call_inverse_cochlear_filter ==
    Enter([NoCall EXCEPT !.fn = "inverse_cochlear_filter"], "inv", 0)

\* aud2cor_j(cochleagram, paras, rv, sv)
M_Call_aud2cor_j ==
    Enter([NoCall EXCEPT !.fn = "aud2cor_j"], "a_alloc", 0)

\* compression, lines 268-274, 277, 282, 285-288: y = mag, dispatch on method
M_CompressionBind ==
    /\ mpc = "comp_bind"
    /\ IF mcall.method \in {"logistic", "root", "power"}
       THEN mpc' = "comp_loop" /\ mi' = 0 /\ UNCHANGED <<merr, lastRet>>
       ELSE IF mcall.method = "identity"
       THEN mpc' = "comp_ret" /\ UNCHANGED <<mi, merr, lastRet>>
       ELSE RaiseM("KeyError") /\ UNCHANGED mi
    /\ UNCHANGED <<heap, heap0, ncalls, mcall, mref, mxref, notMem>>

\* lines 275-276, 278-281, 283-284: y = y.at[i,:].set(...)
M_CompressionRow ==
    /\ mpc = "comp_loop"
    /\ mi < Rows(heap[mref])
    /\ IF mcall.method = "root" /\ ~RootFinite(heap[mref][mi + 1], heap[FacRef][mi + 1])
       THEN mpc' = "nonfinite" /\ UNCHANGED <<heap, mref, mi>>
       ELSE LET row == CompressRow(heap[mref][mi + 1], heap[FacRef][mi + 1], mcall.method)
                o == AtUpdate(heap, mref, [heap[mref] EXCEPT ![mi + 1] = row])
            IN  /\ heap' = o.heap
                /\ mref' = o.ref
                /\ mi' = mi + 1
                /\ mpc' = mpc
    /\ UNCHANGED <<heap0, ncalls, mcall, mxref, merr, lastRet, notMem>>

\* line 289: return y, to the caller or into lines 181 / 233
M_CompressionReturn ==
    /\ \/ mpc = "comp_ret"
       \/ mpc = "comp_loop" /\ mi >= Rows(heap[mref])
    /\ CASE mcall.cont = "wav" -> mpc' = "w_diff" /\ UNCHANGED <<lastRet, merr>>
         [] mcall.cont = "c2a" -> mpc' = "c_rect" /\ UNCHANGED <<lastRet, merr>>
         [] OTHER -> Return(mref)
    /\ UNCHANGED <<heap, heap0, ncalls, mcall, mref, mxref, mi, notMem>>

\* wav2aud_j, lines 159-161: x = jnp.pad(x, ...)
M_WavPad ==
    /\ mpc = "w_pad"
    /\ LET lf == FrameLen(mcall.flen, mcall.oshift)
       IN  IF lf = 0
           THEN RaiseM("ZeroDivisionError") /\ UNCHANGED <<heap, mxref>>
           ELSE LET o == Alloc(heap, PadRight(heap[XRef],
                                     CeilDiv(Len(heap[XRef]), lf) * lf - Len(heap[XRef])))
                IN  /\ heap' = o.heap
                    /\ mxref' = o.ref
                    /\ mpc' = "w_filter"
                    /\ UNCHANGED <<merr, lastRet>>
    /\ UNCHANGED <<heap0, ncalls, mcall, mref, mi, notMem>>

\* lines 168-180: the channel loop, vstack, and the call of compression
M_WavFilter ==
    /\ mpc = "w_filter"
    /\ LET o == Alloc(heap, Subbands(heap[BsRef], heap[AsRef], heap[mxref], mcall.useFft))
       IN  /\ heap' = o.heap
           /\ mref' = o.ref
    /\ mpc' = "comp_bind"
    /\ UNCHANGED <<heap0, ncalls, mcall, mxref, mi, merr, lastRet, notMem>>

\* line 184
M_WavDifference ==
    /\ mpc = "w_diff"
    /\ LET o == Alloc(heap, LateralDifference(heap[mref]))
       IN  /\ heap' = o.heap
           /\ mref' = o.ref
    /\ mpc' = "w_rect"
    /\ UNCHANGED <<heap0, ncalls, mcall, mxref, mi, merr, lastRet, notMem>>

\* lines 188 and 239: v5 = v5.at[:,:].max(0)
M_Rectify ==
    /\ mpc \in {"w_rect", "c_rect"}
    /\ LET o == AtUpdate(heap, mref, Rectify(heap[mref]))
       IN  /\ heap' = o.heap
           /\ mref' = o.ref
    /\ mpc' = "last"
    /\ UNCHANGED <<heap0, ncalls, mcall, mxref, mi, merr, lastRet, notMem>>

\* lines 191-206 and 241-254
M_LastStage ==
    /\ mpc = "last"
    /\ LET lf == FrameLen(mcall.flen, mcall.oshift)
           sm == LeakyRows(heap[mref], AlphaNum(mcall.tc, mcall.oshift), AlphaDen)
       IN  IF mcall.tc # 0
           THEN IF lf = 0
                THEN RaiseM("ValueError") /\ UNCHANGED <<heap, mref>>
                ELSE LET o == Alloc(heap,
                                IF mcall.fn = "wav2aud_j" /\ mcall.mode = "default"
                                THEN DecimateDefault(sm, Cols(heap[mref]) \div lf, lf)
                                ELSE DecimateStride(sm, lf))
                     IN  /\ heap' = o.heap
                         /\ mref' = o.ref
                         /\ Return(o.ref)
           ELSE IF lf = 1
           THEN Return(mref) /\ UNCHANGED <<heap, mref>>
           ELSE RaiseM("NotImplementedError") /\ UNCHANGED <<heap, mref>>
    /\ UNCHANGED <<heap0, ncalls, mcall, mxref, mi, notMem>>

\* inverse_cochlear_filter, lines 296-309: reads Bs, As and v; the result
\* (a real-valued spectral division) is kept as a term over what it read
M_Inverse ==
    /\ mpc = "inv"
    /\ LET o == Alloc(heap, <<"inverse_cochlear_filter",
                              heap[BsRef], heap[AsRef], heap[CgRef]>>)
       IN  /\ heap' = o.heap
           /\ mref' = o.ref
           /\ Return(o.ref)
    /\ UNCHANGED <<heap0, ncalls, mcall, mxref, mi, notMem>>

\* aud2cor_j, line 348: cr = jnp.zeros(...)
M_Aud2corAlloc ==
    /\ mpc = "a_alloc"
    /\ LET o == Alloc(heap, [i \in 1..(Len(heap[SvRef]) * Len(heap[RvRef]) * 2) |-> <<>>])
       IN  /\ heap' = o.heap
           /\ mref' = o.ref
    /\ mi' = 0
    /\ mpc' = "a_loop"
    /\ UNCHANGED <<heap0, ncalls, mcall, mxref, merr, lastRet, notMem>>

\* line 371: cr = cr.at[sdx, col, :, :].set(...), one slice per pass; the
\* slice (complex-valued) is kept as a term over what it was computed from
M_Aud2corSet ==
    /\ mpc = "a_loop"
    /\ mi < Len(heap[mref])
    /\ LET k2 == Len(heap[SvRef])
           slice == <<heap[RvRef][(mi \div (2 * k2)) + 1], heap[SvRef][(mi % k2) + 1],
                      heap[CgRef]>>
           o == AtUpdate(heap, mref, [heap[mref] EXCEPT ![mi + 1] = slice])
       IN  /\ heap' = o.heap
           /\ mref' = o.ref
    /\ mi' = mi + 1
    /\ UNCHANGED <<heap0, ncalls, mpc, mcall, mxref, merr, lastRet, notMem>>

\* line 374
M_Aud2corReturn ==
    /\ mpc = "a_loop"
    /\ mi >= Len(heap[mref])
    /\ Return(mref)
    /\ UNCHANGED <<heap, heap0, ncalls, mcall, mref, mxref, mi, notMem>>

MemNext ==
    \/ M_Call_compression \/ M_Call_cochleagram2aud \/ M_Call_wav2aud_j
    \/ M_Call_inverse_cochlear_filter \/ M_Call_aud2cor_j
    \/ M_CompressionBind \/ M_CompressionRow \/ M_CompressionReturn
    \/ M_WavPad \/ M_WavFilter \/ M_WavDifference \/ M_Rectify \/ M_LastStage
    \/ M_Inverse \/ M_Aud2corAlloc \/ M_Aud2corSet \/ M_Aud2corReturn

SpecMem == MemInit /\ [][MemNext]_vars

====
